---- MODULE Spec2Model ----
(***************************************************************************)
(* Model of the WeatherBus LoRaWAN ingestor (main.go, db/schema.sql).      *)
(*                                                                         *)
(* One handleMessage task runs per delivered MQTT message.  A task parses  *)
(* the message (parseUplink) and then issues its database statements one   *)
(* at a time through the shared pool; every statement is atomic in the     *)
(* database, may fail with an error, and may be interleaved with the       *)
(* statements of the other tasks.                                          *)
(*                                                                         *)
(* Strings that the code only passes through are TLA+ strings ("" is the   *)
(* empty string).  The device EUI, which the code upper-cases, is a        *)
(* sequence of character codes.  A nullable SQL argument or a Go pointer   *)
(* is a sequence of length 0 (NULL / nil) or 1.  A time is a number of     *)
(* nanoseconds; 0 is Go's zero time.                                       *)
(***************************************************************************)
EXTENDS Integers, Sequences, FiniteSets, Bags

VARIABLES
    stations,       \* table stations: set of rows
    gateways,       \* table gateways: set of rows
    measurements,   \* table measurements: bag of rows
    failures,       \* number of statements the database has failed so far
    task,           \* task[t]: the locals of handleMessage for delivery t
    hist,           \* hist[t]: what delivery t has done to the database so far
    dec             \* the locals and the result of a call of decodeUplink

vars == <<stations, gateways, measurements, failures, task, hist, dec>>

\* Number of messages the transport delivers in a run (one task each).
MaxDeliveries == 2

\* Number of statements the database fails in a run.
MaxFailures == 1

\* TIMESTAMPTZ keeps microseconds; Go's time.Time keeps nanoseconds.
NanosPerMicro == 1000

Tasks == 1..MaxDeliveries

-----------------------------------------------------------------------------
(* Inputs: the JSON documents the transport may deliver.                   *)

\* Device EUIs as character codes: "a1", "A1", "B1" and the empty string.
EUI_a1 == <<97, 49>>
EUI_A1 == <<65, 49>>
EUI_B1 == <<66, 49>>
EUI_Empty == <<>>

Sensor(ty, ix, fmt, v) == [type |-> ty, index |-> ix, format |-> fmt, value |-> v]
Slave(id, sensors) == [id |-> id, sensors |-> sensors]
Loc(la, lo) == <<[latitude |-> la, longitude |-> lo]>>
Rx(gw, eui, loc) == [gateway_id |-> gw, eui |-> eui, location |-> loc]

Doc(eui, dev, app, envAt, upAt, rx, slaves) ==
    [ json_ok |-> TRUE,
      dev_eui |-> eui, device_id |-> dev, application_id |-> app,
      received_at |-> envAt,
      uplink_message |-> [received_at |-> upAt, rx_metadata |-> rx, slaves |-> slaves] ]

RxGw1 == <<Rx("gw1", "E1", Loc(10, 20))>>
OneReading == <<Slave(1, <<Sensor(1, 0, 1, 10)>>)>>

\* Bytes that json.Unmarshal rejects (not JSON, or a field of the wrong type).
Garbage == [Doc(EUI_A1, "dev1", "app1", 0, 1000, RxGw1, OneReading) EXCEPT !.json_ok = FALSE]

\* A well-formed document without end_device_ids.dev_eui.
MsgNoEUI == Doc(EUI_Empty, "dev1", "app1", 0, 1000, RxGw1, OneReading)

\* Station A1, uplink-level time 1000, one gateway with a location, one reading.
MsgBase == Doc(EUI_A1, "dev1", "app1", 0, 1000, RxGw1, OneReading)

\* The same station in lower case with another application, no device id, both
\* times set (500 ns after MsgBase), two gateways, and the same sensor with
\* another value and format.
MsgAlt ==
    Doc(EUI_a1, "", "app2", 2000, 1500,
        <<Rx("gw2", "E2", Loc(30, 40)), Rx("gw1", "E1", Loc(10, 20))>>,
        <<Slave(1, <<Sensor(1, 0, 4, 11)>>)>>)

\* MsgBase's station and time (from the envelope level), gw1 with another EUI and
\* no location, and the same sensor with another value.
MsgSame ==
    Doc(EUI_A1, "dev1", "app1", 1000, 0, <<Rx("gw1", "E9", <<>>)>>,
        <<Slave(1, <<Sensor(1, 0, 1, 12)>>)>>)

\* No received_at at either level: the time is time.Now().  No application id
\* and no rx_metadata either: the insert is the only statement.
MsgNoTime == Doc(EUI_A1, "dev1", "", 0, 0, <<>>, OneReading)

\* No application id, no rx_metadata, time 2000 from the envelope level; two slave
\* frames, each with a reading of unknown type (16, 0) before those of known type,
\* and one sensor reported twice.
MsgMulti ==
    Doc(EUI_A1, "dev1", "", 2000, 0, <<>>,
        <<Slave(1, <<Sensor(16, 0, 1, 5), Sensor(1, 0, 1, 10), Sensor(1, 0, 1, 12)>>),
          Slave(2, <<Sensor(0, 1, 0, 6), Sensor(15, 1, 0, 7)>>)>>)

\* Another station; rx_metadata[0] has a location and no gateway id.
MsgOther ==
    Doc(EUI_B1, "dev3", "app1", 0, 1000,
        <<Rx("", "E1", Loc(10, 20)), Rx("gw1", "E1", Loc(50, 60))>>, OneReading)

Messages == {Garbage, MsgNoEUI, MsgBase, MsgAlt, MsgSame, MsgNoTime, MsgMulti, MsgOther}

\* Values time.Now() may return while a message is parsed.
NowTimes == {3000, 5000}

-----------------------------------------------------------------------------
(* parseUplink                                                             *)

ToUpperChar(c) == IF c \in 97..122 THEN c - 32 ELSE c
ToUpper(s) == [i \in 1..Len(s) |-> ToUpperChar(s[i])]

NoParsed == [ok |-> FALSE]

\* parseUplink without the dev_eui test.
parseUplinkAnyEUI(b, now) ==
    IF b.json_ok
    THEN LET when1 == b.uplink_message.received_at
             when2 == IF when1 = 0 THEN b.received_at ELSE when1
             when3 == IF when2 = 0 THEN now ELSE when2
         IN  [ ok |-> TRUE, When |-> when3, StationEUI |-> ToUpper(b.dev_eui),
               StationDevID |-> b.device_id, AppID |-> b.application_id,
               Msg |-> b.uplink_message ]
    ELSE NoParsed

\* parseUplink stamping every record with the processing time.
parseUplinkStampNow(b, now) ==
    IF b.json_ok /\ b.dev_eui # <<>>
    THEN [ ok |-> TRUE, When |-> now, StationEUI |-> ToUpper(b.dev_eui),
           StationDevID |-> b.device_id, AppID |-> b.application_id,
           Msg |-> b.uplink_message ]
    ELSE NoParsed

\* parseUplink trying the envelope-level time before the uplink-message-level one.
parseUplinkEnvelopeFirst(b, now) ==
    IF b.json_ok /\ b.dev_eui # <<>>
    THEN LET when1 == b.received_at
             when2 == IF when1 = 0 THEN b.uplink_message.received_at ELSE when1
             when3 == IF when2 = 0 THEN now ELSE when2
         IN  [ ok |-> TRUE, When |-> when3, StationEUI |-> ToUpper(b.dev_eui),
               StationDevID |-> b.device_id, AppID |-> b.application_id,
               Msg |-> b.uplink_message ]
    ELSE NoParsed

parseUplink(b, now) ==
    IF b.json_ok /\ b.dev_eui # <<>>
    THEN LET when1 == b.uplink_message.received_at
             when2 == IF when1 = 0 THEN b.received_at ELSE when1
             when3 == IF when2 = 0 THEN now ELSE when2
         IN  [ ok |-> TRUE,
               When |-> when3,
               StationEUI |-> ToUpper(b.dev_eui),
               StationDevID |-> b.device_id,
               AppID |-> b.application_id,
               Msg |-> b.uplink_message ]
    ELSE NoParsed

-----------------------------------------------------------------------------
(* Helpers and the three SQL statements                                    *)

validSensorTypes == 1..15

\* The type test off by one at the lower end.
IsValidTypeFromZero(ty) == ty \in 0..15

IsValidType(ty) == ty \in validSensorTypes

nullIfEmpty(s) == IF s = "" THEN <<>> ELSE <<s>>

nullFloat(f) == f

\* The value a TIMESTAMPTZ column keeps of a Go time: whole microseconds.
DbTime(when) == when \div NanosPerMicro

\* UNIQUE (time, station_eui, slave_id, sensor_type, sensor_index)
MKey(r) == <<r.time, r.station_eui, r.slave_id, r.sensor_type, r.sensor_index>>

MKeys(tbl) == {MKey(r) : r \in BagToSet(tbl)}

\* The row the database stores for the arguments of one insert.
StoredRow(a) == [a EXCEPT !.time = DbTime(a.time)]

\* INSERT without the unique constraint's conflict check.
insertMeasurementNoConflict(tbl, a) == tbl (+) SetToBag({StoredRow(a)})

\* INSERT ... ON CONFLICT DO UPDATE: the new row replaces the old one.
insertMeasurementDoUpdate(tbl, a) ==
    LET keep == {r \in BagToSet(tbl) : MKey(r) # MKey(StoredRow(a))}
    IN  [r \in keep |-> tbl[r]] (+) SetToBag({StoredRow(a)})

\* INSERT ... ON CONFLICT DO NOTHING with a unique constraint that leaves out time.
insertMeasurementKeyNoTime(tbl, a) ==
    IF \E r \in BagToSet(tbl) : Tail(MKey(r)) = Tail(MKey(StoredRow(a)))
    THEN tbl ELSE tbl (+) SetToBag({StoredRow(a)})

\* INSERT ... ON CONFLICT DO NOTHING
insertMeasurementSQL(tbl, a) ==
    IF MKey(StoredRow(a)) \in MKeys(tbl) THEN tbl ELSE tbl (+) SetToBag({StoredRow(a)})

\* INSERT ... ON CONFLICT (station_eui) DO NOTHING: the first write wins.
upsertStationDoNothing(tbl, a) ==
    IF \E r \in tbl : r.station_eui = a.station_eui THEN tbl ELSE tbl \cup {a}

upsertStationSQL(tbl, a) ==
    IF \E r \in tbl : r.station_eui = a.station_eui
    THEN { IF r.station_eui = a.station_eui
           THEN [r EXCEPT !.application_id = a.application_id,
                          !.station_devid = a.station_devid]
           ELSE r : r \in tbl }
    ELSE tbl \cup {a}

upsertGatewaySQL(tbl, a) ==
    IF \E r \in tbl : r.gateway_id = a.gateway_id
    THEN { IF r.gateway_id = a.gateway_id
           THEN [r EXCEPT !.gateway_eui = a.gateway_eui]
           ELSE r : r \in tbl }
    ELSE tbl \cup {a}

-----------------------------------------------------------------------------
(* handleMessage                                                           *)

\* The readings of a payload in the order the nested range loops visit them.
RECURSIVE Readings(_)
Readings(slaves) ==
    IF slaves = <<>> THEN <<>>
    ELSE [i \in 1..Len(Head(slaves).sensors) |->
             [slave_id |-> Head(slaves).id, m |-> Head(slaves).sensors[i]]]
         \o Readings(Tail(slaves))

StationArgs(p) ==
    [station_eui |-> p.StationEUI, application_id |-> p.AppID,
     station_devid |-> nullIfEmpty(p.StationDevID)]

GatewayArgs(rm) == [gateway_id |-> rm.gateway_id, gateway_eui |-> rm.eui]

MeasurementArgs(p, gwID, lat, lon, rd) ==
    [time |-> p.When, station_eui |-> p.StationEUI,
     station_devid |-> nullIfEmpty(p.StationDevID),
     slave_id |-> rd.slave_id, sensor_type |-> rd.m.type, sensor_index |-> rd.m.index,
     value |-> rd.m.value, format |-> rd.m.format,
     gateway_id |-> nullIfEmpty(gwID), latitude |-> nullFloat(lat),
     longitude |-> nullFloat(lon)]

\* Attribution from the last rx_metadata entry instead of the first.
GwIDOfLast(rx) == IF Len(rx) > 0 THEN rx[Len(rx)].gateway_id ELSE ""

\* The locals gwID, lat and lon after main.go 212-226.
GwIDOf(rx) == IF Len(rx) > 0 THEN rx[1].gateway_id ELSE ""
LatOf(rx) ==
    IF Len(rx) > 0 THEN (IF rx[1].location # <<>> THEN <<rx[1].location[1].latitude>> ELSE <<>>)
    ELSE <<>>
LonOf(rx) ==
    IF Len(rx) > 0 THEN (IF rx[1].location # <<>> THEN <<rx[1].location[1].longitude>> ELSE <<>>)
    ELSE <<>>

\* A handler that returns when the gateway upsert fails.
AfterGatewayUpsertReturn(err) == IF err THEN "done" ELSE "loop"

\* A loop that a failed insert ends.
AfterInsertBreak(err, cur, n) == IF err THEN n + 1 ELSE cur + 1

\* A loop that a reading of unknown type ends.
AfterUnknownTypeBreak(cur, n) == n + 1

\* Where handleMessage goes after each statement; err is the statement's error,
\* cur the position in the readings and n their number.
AfterStationUpsert(err) == "gateway"
AfterGatewayUpsert(err) == "loop"
AfterInsert(err, cur, n) == cur + 1
AfterUnknownType(cur, n) == cur + 1
CountAfterInsert(err, count) == IF err THEN count ELSE count + 1

\* pool.Exec returns an error (TRUE) or nil (FALSE).
ExecErrors == IF failures < MaxFailures THEN BOOLEAN ELSE {FALSE}

-----------------------------------------------------------------------------
(***************************************************************************)
(* The payload formatter (payload-formatter.js, decodeUplink).             *)
(*                                                                         *)
(* bytes is a sequence of numbers 0..255; the code's index k is the TLA+   *)
(* index k + 1.  An error or warning message is a tuple: the text, and     *)
(* for `Unknown format ${fmt}` the number that the template inserts.       *)
(* A decoded value is a record: an integer or a fixed-point value is the   *)
(* quotient num / den that the code computes, a float is the sign,         *)
(* exponent and fraction fields of the IEEE-754 value that DataView reads. *)
(***************************************************************************)

\* bytes[k]: a JavaScript array read past the end yields undefined, which the
\* shifts, the bit operators and the comparison i < sensorCount take as 0.
ByteAt(bytes, k) == IF k < Len(bytes) THEN bytes[k + 1] ELSE 0

\* bytes.slice(from, to): the bytes that exist in the range.
RECURSIVE Slice(_, _, _)
Slice(bytes, from, to) ==
    IF from >= to \/ from >= Len(bytes) THEN <<>>
    ELSE <<bytes[from + 1]>> \o Slice(bytes, from + 1, to)

\* FORMAT_LEN[fmt]; 0 stands for undefined (both are falsy in `!len`).
FORMAT_LEN(fmt) ==
    IF fmt \in 0..5 THEN <<1, 2, 4, 8, 2, 2>>[fmt + 1] ELSE 0

\* A header whose upper four bits are taken as the format.
HeaderFormatFourBits(hdr) == hdr \div 16

\* hdr >> 5 and hdr & 0x1F for a byte.
HeaderFormat(hdr) == hdr \div 32
HeaderIndex(hdr) == hdr % 32

\* A slave id read little-endian.
SlaveIdLittleEndian(b0, b1) == b1 * 256 + b0

\* (bytes[pos] << 8) | bytes[pos + 1]: the low byte of the shifted value is 0.
SlaveId(b0, b1) == b0 * 256 + b1

Rational(n, d) == [kind |-> "number", num |-> n, den |-> d, ieee |-> <<>>]
Float(fields) == [kind |-> "float", num |-> 0, den |-> 1, ieee |-> fields]

\* DataView readers at offset 0, little-endian where two or more bytes are read.
getUint8(raw) == raw[1]
getUint16(raw) == raw[1] + 256 * raw[2]

\* getInt16 without the sign.
getInt16Unsigned(raw) == raw[1] + 256 * raw[2]

getInt16(raw) ==
    LET u == raw[1] + 256 * raw[2]
    IN  IF u >= 32768 THEN u - 65536 ELSE u

\* sign, 8-bit exponent, 23-bit fraction
getFloat32(raw) ==
    Float(<<raw[4] \div 128,
            (raw[4] % 128) * 2 + raw[3] \div 128,
            (raw[3] % 128) * 65536 + raw[2] * 256 + raw[1]>>)

\* sign, 11-bit exponent, 52-bit fraction as its upper 20, middle 16, lower 16 bits
getFloat64(raw) ==
    Float(<<raw[8] \div 128,
            (raw[8] % 128) * 16 + raw[7] \div 16,
            (raw[7] % 16) * 65536 + raw[6] * 256 + raw[5],
            raw[4] * 256 + raw[3],
            raw[2] * 256 + raw[1]>>)

\* The switch of payload-formatter.js 48-69 (its default is never taken: fmt
\* is one of 0..5 once FORMAT_LEN[fmt] is defined).
DecodeValue(fmt, raw) ==
    CASE fmt = 0 -> Rational(getUint8(raw), 1)
      [] fmt = 1 -> Rational(getUint16(raw), 1)
      [] fmt = 2 -> getFloat32(raw)
      [] fmt = 3 -> getFloat64(raw)
      [] fmt = 4 -> Rational(getInt16(raw), 100)
      [] fmt = 5 -> Rational(getUint16(raw), 10)

TruncatedHeaderMsg == <<"Truncated sensor header">>
TruncatedValueMsg == <<"Truncated sensor value">>
UnknownFormatMsg(fmt) == <<"Unknown format", fmt>>
ExtraBytesMsg == <<"Extra bytes at end of payload">>

\* A loop that goes on while two bytes remain.
WhileConditionTwoBytes(d) == d.pos + 2 <= Len(d.bytes)

\* payload-formatter.js 18
WhileCondition(d) == d.pos + 3 <= Len(d.bytes)

\* A trailing-bytes check that never warns.
ExtraBytesIgnored(d) == <<>>

\* payload-formatter.js 77-79
ExtraBytes(d) == IF d.pos # Len(d.bytes) THEN <<ExtraBytesMsg>> ELSE <<>>

\* An early return that goes through the trailing-bytes check.
ReturnErrorAndWarn(d, msg) ==
    [d EXCEPT !.errors = Append(@, msg), !.warnings = @ \o ExtraBytes(d),
              !.pc = "returned"]

\* errors.push(msg); return { data: { slaves }, warnings, errors }: the sensors
\* of the block in progress are not part of the result.
ReturnError(d, msg) ==
    [d EXCEPT !.errors = Append(@, msg), !.pc = "returned"]

\* The locals and the result of one call of decodeUplink; input, trace and
\* reads record the call for the properties:
\*   input   the frame as it was put together (bytes, and what it was built from)
\*   trace   per block begun: where it starts, where each decoded reading's
\*           header is, whether it was pushed to slaves
\*   reads   the highest index at which bytes has been read (-1: none)
IdleDec ==
    [pc |-> "idle", bytes |-> <<>>, pos |-> 0, sid |-> 0, sensorCount |-> 0,
     i |-> 0, sensors |-> <<>>, hdr |-> 0, fmt |-> 0, index |-> 0,
     slaves |-> <<>>, warnings |-> <<>>, errors |-> <<>>,
     input |-> [bytes |-> <<>>, whole |-> <<>>, rest |-> 0, family |-> "none", n |-> 0],
     trace |-> <<>>, reads |-> -1]

\* The state at payload-formatter.js 16 of decodeUplink({bytes}).
StartDec(in) ==
    [IdleDec EXCEPT !.pc = "while", !.bytes = in.bytes, !.input = in]

-----------------------------------------------------------------------------
IdleTask ==
    [pc |-> "idle", msg |-> Garbage, p |-> NoParsed, gwID |-> "", lat |-> <<>>,
     lon |-> <<>>, cur |-> 1, count |-> 0, logged |-> <<>>]

NoHist ==
    [prior |-> {}, calls |-> 0, st |-> "none", gw |-> "none", insErr |-> {},
     attempts |-> <<>>, added |-> 0, lost |-> 0, gwArgs |-> <<>>]

Init ==
    /\ stations = {}
    /\ gateways = {}
    /\ measurements = EmptyBag
    /\ failures = 0
    /\ task = [t \in Tasks |-> IdleTask]
    /\ hist = [t \in Tasks |-> NoHist]
    /\ dec = IdleDec

\* The code of handleMessage between two database statements reads and writes
\* only the task's locals, so it runs together with the statement before it:
\* RunLocal takes the task from where it stands to its next pool.Exec or to its
\* return.
\*   main.go 204      no application id: no station upsert
\*   main.go 212-226  no gateway id in rx_metadata[0]: no gateway upsert
\*   main.go 231-234  a reading of unknown type is skipped
\*   main.go 247      the loops are over: the summary is logged, the handler returns
RECURSIVE RunLocal(_)
RunLocal(tk) ==
    LET rx == tk.p.Msg.rx_metadata
        rds == Readings(tk.p.Msg.slaves)
    IN  IF tk.pc = "station" /\ ~(tk.p.AppID # "" /\ tk.p.StationEUI # <<>>)
        THEN RunLocal([tk EXCEPT !.pc = "gateway"])
        ELSE IF tk.pc = "gateway" /\ GwIDOf(rx) = ""
        THEN RunLocal([tk EXCEPT !.pc = "loop", !.gwID = GwIDOf(rx),
                                 !.lat = LatOf(rx), !.lon = LonOf(rx)])
        ELSE IF tk.pc = "loop" /\ tk.cur > Len(rds)
        THEN [tk EXCEPT !.pc = "done", !.logged = <<tk.count, tk.p.StationEUI>>]
        ELSE IF tk.pc = "loop" /\ ~IsValidType(rds[tk.cur].m.type)
        THEN RunLocal([tk EXCEPT !.cur = AfterUnknownType(tk.cur, Len(rds))])
        ELSE tk

\* The subscription callback starts handleMessage for the next delivery:
\* main.go 198-202, parseUplink and the return on its error.
Receive(t) ==
    /\ task[t].pc = "idle"
    /\ \A u \in Tasks : u < t => task[u].pc # "idle"
    /\ \E b \in Messages, now \in NowTimes :
         LET p == parseUplink(b, now)
         IN  task' = [task EXCEPT ![t] =
                 IF p.ok
                 THEN RunLocal([IdleTask EXCEPT !.pc = "station", !.msg = b, !.p = p])
                 ELSE [IdleTask EXCEPT !.pc = "done", !.msg = b, !.p = p]]
    /\ hist' = [hist EXCEPT ![t].prior = {u \in Tasks : task[u].pc = "done"}]
    /\ UNCHANGED <<stations, gateways, measurements, failures, dec>>

\* main.go 204-209: one Exec of upsertStationSQL.
UpsertStation(t) ==
    /\ task[t].pc = "station"
    /\ \E err \in ExecErrors :
         /\ stations' = IF err THEN stations
                         ELSE upsertStationSQL(stations, StationArgs(task[t].p))
         /\ failures' = IF err THEN failures + 1 ELSE failures
         /\ task' = [task EXCEPT ![t] = RunLocal([@ EXCEPT !.pc = AfterStationUpsert(err)])]
         /\ hist' = [hist EXCEPT ![t].calls = @ + 1,
                                  ![t].st = IF err THEN "err" ELSE "ok"]
    /\ UNCHANGED <<gateways, measurements, dec>>

\* main.go 212-226: one Exec of upsertGatewaySQL for rx_metadata[0].
UpsertGateway(t) ==
    /\ task[t].pc = "gateway"
    /\ LET rx == task[t].p.Msg.rx_metadata
       IN  \E err \in ExecErrors :
             /\ gateways' = IF err THEN gateways
                             ELSE upsertGatewaySQL(gateways, GatewayArgs(rx[1]))
             /\ failures' = IF err THEN failures + 1 ELSE failures
             /\ task' = [task EXCEPT ![t] =
                    RunLocal([@ EXCEPT !.pc = AfterGatewayUpsert(err),
                                       !.gwID = GwIDOf(rx),
                                       !.lat = LatOf(rx),
                                       !.lon = LonOf(rx)])]
             /\ hist' = [hist EXCEPT ![t].calls = @ + 1,
                                      ![t].gw = IF err THEN "err" ELSE "ok",
                                      ![t].gwArgs = Append(@, GatewayArgs(rx[1]))]
    /\ UNCHANGED <<stations, measurements, dec>>

\* main.go 235-243: one Exec of insertMeasurementSQL.
InsertMeasurement(t) ==
    /\ task[t].pc = "loop"
    /\ LET rds == Readings(task[t].p.Msg.slaves)
           cur == task[t].cur
           a == MeasurementArgs(task[t].p, task[t].gwID, task[t].lat, task[t].lon, rds[cur])
       IN  \E err \in ExecErrors :
             /\ measurements' = IF err THEN measurements
                                 ELSE insertMeasurementSQL(measurements, a)
             /\ failures' = IF err THEN failures + 1 ELSE failures
             /\ task' = [task EXCEPT ![t] =
                    RunLocal([@ EXCEPT !.cur = AfterInsert(err, cur, Len(rds)),
                                       !.count = CountAfterInsert(err, @)])]
             /\ hist' = [hist EXCEPT
                    ![t].calls = @ + 1,
                    ![t].insErr = IF err THEN @ \cup {Len(hist[t].attempts) + 1} ELSE @,
                    ![t].attempts = Append(@, a),
                    ![t].added = @ + BagCardinality(measurements' (-) measurements),
                    ![t].lost = @ + BagCardinality(measurements (-) measurements')]
    /\ UNCHANGED <<stations, gateways, dec>>

handleMessage(t) ==
    \/ UpsertStation(t)
    \/ UpsertGateway(t)
    \/ InsertMeasurement(t)

Next == \E t \in Tasks : Receive(t) \/ handleMessage(t)

Spec == Init /\ [][Next]_vars

-----------------------------------------------------------------------------
(***************************************************************************)
(* Frames given to decodeUplink.                                           *)
(***************************************************************************)

\* Number of slave blocks a frame is put together from.
MaxBlocks == 2

Reading(ty, ix, fmt, v) == [type |-> ty, index |-> ix, format |-> fmt, value |-> v]

\* Slave blocks as they are on the wire.  A well-formed block (ok) comes with
\* the slave it stands for, worked out by hand from the wire format; the last
\* two blocks carry a header with format code 6 and 7.
Blocks ==
    << [wire |-> <<0, 1, 1, 1, 0, 25>>, ok |-> TRUE,
        slave |-> [id |-> 1, sensors |-> <<Reading(1, 0, 0, Rational(25, 1))>>]],
       [wire |-> <<1, 2, 2, 2, 33, 52, 18, 3, 159, 24, 252>>, ok |-> TRUE,
        slave |-> [id |-> 258,
                   sensors |-> <<Reading(2, 1, 1, Rational(4660, 1)),
                                 Reading(3, 31, 4, Rational(-1000, 100))>>]],
       [wire |-> <<0, 3, 0>>, ok |-> TRUE,
        slave |-> [id |-> 3, sensors |-> <<>>]],
       [wire |-> <<0, 4, 1, 5, 64, 0, 0, 192, 63>>, ok |-> TRUE,
        slave |-> [id |-> 4,
                   sensors |-> <<Reading(5, 0, 2, Float(<<0, 127, 4194304>>))>>]],
       [wire |-> <<0, 5, 1, 6, 98, 0, 0, 0, 0, 0, 0, 0, 192>>, ok |-> TRUE,
        slave |-> [id |-> 5,
                   sensors |-> <<Reading(6, 2, 3, Float(<<1, 1024, 0, 0, 0>>))>>]],
       [wire |-> <<255, 6, 1, 7, 163, 255, 255>>, ok |-> TRUE,
        slave |-> [id |-> 65286,
                   sensors |-> <<Reading(7, 3, 5, Rational(65535, 10))>>]],
       [wire |-> <<0, 7, 2, 1, 0, 9, 8, 192>>, ok |-> FALSE,
        slave |-> [id |-> 7, sensors |-> <<>>]],
       [wire |-> <<0, 8, 1, 9, 255, 1, 2>>, ok |-> FALSE,
        slave |-> [id |-> 8, sensors |-> <<>>]] >>

Chains == UNION {[1..n -> 1..Len(Blocks)] : n \in 0..MaxBlocks}

RECURSIVE Wire(_)
Wire(chain) ==
    IF chain = <<>> THEN <<>> ELSE Blocks[Head(chain)].wire \o Wire(Tail(chain))

\* The well-formed blocks at the head of the chain that lie within its first k bytes.
RECURSIVE Whole(_, _)
Whole(chain, k) ==
    IF chain = <<>> THEN <<>>
    ELSE LET b == Blocks[Head(chain)]
         IN  IF b.ok /\ Len(b.wire) <= k
             THEN <<b>> \o Whole(Tail(chain), k - Len(b.wire))
             ELSE <<>>

RECURSIVE WireLen(_)
WireLen(bs) == IF bs = <<>> THEN 0 ELSE Len(Head(bs).wire) + WireLen(Tail(bs))

Frame(bs, w, r, fam, num) ==
    [bytes |-> bs, whole |-> w, rest |-> r, family |-> fam, n |-> num]

\* Every chain of blocks cut after each number of bytes.
BlockFrames ==
    UNION { { Frame(SubSeq(Wire(c), 1, k),
                    [j \in 1..Len(Whole(c, k)) |-> Whole(c, k)[j].slave],
                    k - WireLen(Whole(c, k)), "blocks", 0)
                : k \in 0..Len(Wire(c)) }
            : c \in Chains }

\* One block of one sensor for each header byte, followed by eight zero bytes.
HeaderFrames ==
    { Frame(<<a, b, 1, 7, h, 0, 0, 0, 0, 0, 0, 0, 0>>, <<>>, 0, "header", h)
        : a \in {0, 255}, b \in {0, 255}, h \in 0..255 }

\* The little-endian 16-bit two's-complement encoding of n.
Encode16(n) == <<(n % 65536) % 256, (n % 65536) \div 256>>

\* One block of one sensor of format 4 holding the signed 16-bit number n, and
\* of format 5 holding the unsigned 16-bit number n.
FixedPoint4Frame(n) == Frame(<<0, 1, 1, 2, 128>> \o Encode16(n), <<>>, 0, "fixed4", n)
FixedPoint5Frame(n) == Frame(<<0, 1, 1, 2, 160>> \o Encode16(n), <<>>, 0, "fixed5", n)

-----------------------------------------------------------------------------
(***************************************************************************)
(* decodeUplink, one step per pass through the head of the while loop and  *)
(* per pass through the for loop.                                          *)
(***************************************************************************)
Highest(a, b) == IF a >= b THEN a ELSE b

\* payload-formatter.js 18-22: a slave block begins.
BeginSlave ==
    /\ dec.pc = "while"
    /\ WhileCondition(dec)
    /\ dec' = [dec EXCEPT
                 !.sid = SlaveId(ByteAt(dec.bytes, dec.pos), ByteAt(dec.bytes, dec.pos + 1)),
                 !.sensorCount = ByteAt(dec.bytes, dec.pos + 2),
                 !.pos = @ + 3,
                 !.sensors = <<>>,
                 !.i = 0,
                 !.pc = "for",
                 !.trace = Append(@, [start |-> dec.pos, at |-> <<>>, pushed |-> FALSE]),
                 !.reads = Highest(@, dec.pos + 2)]
    /\ UNCHANGED <<stations, gateways, measurements, failures, task, hist>>

\* payload-formatter.js 25-71: the body of the for loop.
ForBody(d) ==
    IF d.pos + 2 > Len(d.bytes)
    THEN ReturnError(d, TruncatedHeaderMsg)
    ELSE LET type == ByteAt(d.bytes, d.pos)
             hdr == ByteAt(d.bytes, d.pos + 1)
             fmt == HeaderFormat(hdr)
             index == HeaderIndex(hdr)
             len == FORMAT_LEN(fmt)
             pos == d.pos + 2
             d2 == [d EXCEPT !.pos = pos, !.hdr = hdr, !.fmt = fmt, !.index = index,
                             !.reads = Highest(@, d.pos + 1)]
         IN  IF len = 0
             THEN ReturnError(d2, UnknownFormatMsg(fmt))
             ELSE IF pos + len > Len(d.bytes)
             THEN ReturnError(d2, TruncatedValueMsg)
             ELSE LET raw == Slice(d.bytes, pos, pos + len)
                  IN  [d2 EXCEPT
                         !.pos = pos + len,
                         !.sensors = Append(@, [type |-> type, index |-> index,
                                                format |-> fmt,
                                                value |-> DecodeValue(fmt, raw)]),
                         !.i = @ + 1,
                         !.trace[Len(d.trace)].at = Append(@, d.pos),
                         !.reads = Highest(@, pos + len - 1)]

\* payload-formatter.js 24-72: one sensor is read, or the call returns an error.
ReadSensor ==
    /\ dec.pc = "for"
    /\ dec.i < dec.sensorCount
    /\ dec' = ForBody(dec)
    /\ UNCHANGED <<stations, gateways, measurements, failures, task, hist>>

\* payload-formatter.js 24, 74: the for loop is over, the slave is pushed.
EndSlave ==
    /\ dec.pc = "for"
    /\ ~(dec.i < dec.sensorCount)
    /\ dec' = [dec EXCEPT
                 !.slaves = Append(@, [id |-> dec.sid, sensors |-> dec.sensors]),
                 !.trace[Len(dec.trace)].pushed = TRUE,
                 !.pc = "while"]
    /\ UNCHANGED <<stations, gateways, measurements, failures, task, hist>>

\* payload-formatter.js 18, 77-81: the while loop is over, the call returns.
Finish ==
    /\ dec.pc = "while"
    /\ ~WhileCondition(dec)
    /\ dec' = [dec EXCEPT !.warnings = @ \o ExtraBytes(dec), !.pc = "returned"]
    /\ UNCHANGED <<stations, gateways, measurements, failures, task, hist>>

decodeUplink == BeginSlave \/ ReadSensor \/ EndSlave \/ Finish

IngestIdle ==
    /\ stations = {}
    /\ gateways = {}
    /\ measurements = EmptyBag
    /\ failures = 0
    /\ task = [t \in Tasks |-> IdleTask]
    /\ hist = [t \in Tasks |-> NoHist]

InitDecode ==
    /\ IngestIdle
    /\ dec \in {StartDec(in) : in \in BlockFrames \cup HeaderFrames}

InitFixedPoint ==
    /\ IngestIdle
    /\ \/ \E n \in -32768..32767 : dec = StartDec(FixedPoint4Frame(n))
       \/ \E n \in 0..65535 : dec = StartDec(FixedPoint5Frame(n))

\* decodeUplink called on a frame of blocks or on a header frame
SpecDecode == InitDecode /\ [][decodeUplink]_vars

\* the same, where the interpreter goes on running the call
SpecDecodeRun == InitDecode /\ [][decodeUplink]_vars /\ WF_vars(decodeUplink)

\* decodeUplink called on a fixed-point frame
SpecFixedPoint == InitFixedPoint /\ [][decodeUplink]_vars


-----------------------------------------------------------------------------
(* Vocabulary of the properties                                            *)

Done(t) == task[t].pc = "done"
Accepted(t) == task[t].p.ok
Started(t) == task[t].pc # "idle"

\* No statement of delivery t has failed.
NoErr(t) == hist[t].st # "err" /\ hist[t].gw # "err" /\ hist[t].insErr = {}

\* Delivery u ran after every other delivery had finished, and none started since.
RanLast(u) == \A w \in Tasks \ {u} : Started(w) => w \in hist[u].prior

\* Deliveries t and u overlapped in time.
Overlapped(t, u) == t # u /\ Started(t) /\ Started(u)
                    /\ t \notin hist[u].prior /\ u \notin hist[t].prior

\* The readings of a record whose type is one of the fifteen sensor types.
KnownReadings(p) == SelectSeq(Readings(p.Msg.slaves), LAMBDA rd : rd.m.type \in 1..15)

\* The arguments of the inserts a record calls for, from the record alone.
RecordArgs(p) ==
    LET rx == p.Msg.rx_metadata
        krs == KnownReadings(p)
    IN  [i \in 1..Len(krs) |->
            [time |-> p.When, station_eui |-> p.StationEUI,
             station_devid |-> IF p.StationDevID = "" THEN <<>> ELSE <<p.StationDevID>>,
             slave_id |-> krs[i].slave_id, sensor_type |-> krs[i].m.type,
             sensor_index |-> krs[i].m.index, value |-> krs[i].m.value,
             format |-> krs[i].m.format,
             gateway_id |-> IF rx = <<>> THEN <<>>
                            ELSE IF rx[1].gateway_id = "" THEN <<>> ELSE <<rx[1].gateway_id>>,
             latitude |-> IF rx = <<>> THEN <<>>
                          ELSE IF rx[1].location = <<>> THEN <<>>
                          ELSE <<rx[1].location[1].latitude>>,
             longitude |-> IF rx = <<>> THEN <<>>
                           ELSE IF rx[1].location = <<>> THEN <<>>
                           ELSE <<rx[1].location[1].longitude>>]]

\* The keys under which a record's rows are stored (time in microseconds).
RecordKeys(p) ==
    {<<p.When \div 1000, p.StationEUI, rd.slave_id, rd.m.type, rd.m.index>> :
        rd \in {KnownReadings(p)[i] : i \in 1..Len(KnownReadings(p))}}

\* Number of rows (copies included) stored under key k.
RowsWithKey(k) ==
    LET rs == {r \in BagToSet(measurements) : MKey(r) = k}
        RECURSIVE Sum(_)
        Sum(S) == IF S = {} THEN 0
                  ELSE LET r == CHOOSE x \in S : TRUE
                       IN  CopiesIn(r, measurements) + Sum(S \ {r})
    IN  Sum(rs)

StationRows(eui) == {r \in stations : r.station_eui = eui}
GatewayRows(id) == {r \in gateways : r.gateway_id = id}

-----------------------------------------------------------------------------
(* C1  Idempotence of ingest.  When a record has been ingested without a   *)
(* failed insert and the same canonical record (same resolved time,        *)
(* station EUI and payload) is ingested again afterwards, the second       *)
(* ingest adds no Measurement row and changes or removes none, every key   *)
(* of the record has exactly one row, and the Station and Gateway rows     *)
(* are the ones the record carries.                                        *)
SameRecordTwice(t, u) ==
    /\ t \in hist[u].prior
    /\ Accepted(t) /\ Accepted(u)
    /\ task[t].p = task[u].p
    /\ hist[t].insErr = {}
    /\ Done(u) /\ NoErr(u) /\ RanLast(u)

-----------------------------------------------------------------------------
(* C2  Under every interleaving of the statements of concurrent            *)
(* handleMessage tasks, the Measurement table never holds two rows with    *)
(* the same (time, stationEUI, slaveID, sensorType, sensorIndex).          *)
C2_UniqueKey == \A k \in MKeys(measurements) : RowsWithKey(k) = 1

\* Two deliveries that overlapped in time have both inserted the same key.
C2_Witness ==
    \E t, u \in Tasks :
        /\ Overlapped(t, u)
        /\ Done(t) /\ Done(u) /\ NoErr(t) /\ NoErr(u)
        /\ \E i \in 1..Len(hist[t].attempts), j \in 1..Len(hist[u].attempts) :
              /\ MKey(StoredRow(hist[t].attempts[i])) = MKey(StoredRow(hist[u].attempts[j]))
              /\ hist[t].attempts[i] # hist[u].attempts[j]

-----------------------------------------------------------------------------
(* C3  Measurement rows are append-only and immutable: a step never        *)
(* removes or changes a stored row and never adds a row under a key that   *)
(* already has one, so the row stored under a key is the first one         *)
(* written; Station and Gateway rows, once created, are never deleted.     *)
RowsKept ==
    /\ \A r \in BagToSet(measurements) :
          /\ r \in BagToSet(measurements')
          /\ CopiesIn(r, measurements') = CopiesIn(r, measurements)
    /\ \A r \in BagToSet(measurements') :
          MKey(r) \in MKeys(measurements) => r \in BagToSet(measurements)
    /\ \A r \in stations :
          \E r2 \in stations' : r2.station_eui = r.station_eui
    /\ \A r \in gateways : \E r2 \in gateways' : r2.gateway_id = r.gateway_id

C3_AppendOnly == [][RowsKept]_vars

\* A delivery has finished, without a failed statement, an insert whose key was
\* already stored with another value: its row is not the stored one.
C3_Witness ==
    \E u \in Tasks :
        /\ Done(u) /\ NoErr(u)
        /\ \E i \in 1..Len(hist[u].attempts) :
              /\ StoredRow(hist[u].attempts[i]) \notin BagToSet(measurements)
              /\ MKey(StoredRow(hist[u].attempts[i])) \in MKeys(measurements)
        /\ StationRows(task[u].p.StationEUI) # {}
        /\ gateways # {}

-----------------------------------------------------------------------------
(* C4  Station upserts of two messages of one station.                     *)

\* The arguments of the station upsert a record calls for.
RecordStation(p) ==
    [station_eui |-> p.StationEUI, application_id |-> p.AppID,
     station_devid |-> IF p.StationDevID = "" THEN <<>> ELSE <<p.StationDevID>>]

\* Deliveries t and u both upsert the row of one station.
SameStationUpserts(t, u) ==
    /\ t # u
    /\ Accepted(t) /\ Accepted(u)
    /\ task[t].p.StationEUI = task[u].p.StationEUI
    /\ task[t].p.AppID # "" /\ task[u].p.AppID # ""

-----------------------------------------------------------------------------
(* C5  Redelivery of the same message bytes.                               *)

\* Delivery u handled, after delivery t had finished, the bytes t had handled,
\* and no statement of either failed.
Redelivered(t, u) ==
    /\ t \in hist[u].prior
    /\ Accepted(t) /\ task[t].msg = task[u].msg
    /\ Done(u) /\ NoErr(t) /\ NoErr(u)

\* The claim as stated: redelivery of any accepted message adds no row.
C5_RedeliveryAddsNothing ==
    \A t, u \in Tasks :
        Redelivered(t, u) => hist[u].added = 0 /\ hist[u].lost = 0

(* C5 (amended)  For every accepted message that carries a non-zero        *)
(* received_at, at the uplink-message level or at the envelope level,      *)
(* handling the same bytes again (no statement failing) adds no            *)
(* Measurement row and removes none.  A message without either time is     *)
(* stamped with the processing time of each delivery.                      *)
HasReceivedAt(b) == b.uplink_message.received_at # 0 \/ b.received_at # 0

C5_TimedRedeliveryAddsNothing ==
    \A t, u \in Tasks :
        (Redelivered(t, u) /\ HasReceivedAt(task[u].msg))
            => hist[u].added = 0 /\ hist[u].lost = 0

\* A message with a received_at and a reading has been handled twice.
C5_Witness ==
    \E t, u \in Tasks :
        /\ Redelivered(t, u) /\ HasReceivedAt(task[u].msg)
        /\ Len(hist[t].attempts) > 0 /\ Len(hist[u].attempts) > 0
        /\ hist[t].added > 0

-----------------------------------------------------------------------------
(* C6  Out-of-order delivery of the messages of one station.               *)

\* The rows a record leaves when it is ingested alone into an empty table: of
\* readings with the same key, the first.
OwnRows(p) ==
    LET as == RecordArgs(p)
        Row(i) == [as[i] EXCEPT !.time = as[i].time \div 1000]
    IN  {Row(i) : i \in {j \in 1..Len(as) :
                            \A h \in 1..(j - 1) : MKey(Row(h)) # MKey(Row(j))}}

\* Every delivery has finished, none with a failed statement, and the accepted
\* ones are all of one station.
OneStationFinished ==
    /\ \A t \in Tasks : Done(t) /\ NoErr(t)
    /\ \A t, u \in Tasks :
          (Accepted(t) /\ Accepted(u)) => task[t].p.StationEUI = task[u].p.StationEUI

\* The table holds exactly the rows of the accepted records, each once.
TableIsUnionOfRecords ==
    /\ BagToSet(measurements) = UNION {OwnRows(task[t].p) : t \in {x \in Tasks : Accepted(x)}}
    /\ \A r \in BagToSet(measurements) : CopiesIn(r, measurements) = 1

\* The claim as stated: distinct resolved timestamps make the final rows the
\* same for every order of handling.
C6_DistinctTimesAnyOrder ==
    ( /\ OneStationFinished
      /\ \A t, u \in Tasks :
            (t # u /\ Accepted(t) /\ Accepted(u)) => task[t].p.When # task[u].p.When )
    => TableIsUnionOfRecords

(* C6 (amended)  For any set of accepted messages of one station whose     *)
(* resolved timestamps are pairwise distinct in whole microseconds (the    *)
(* resolution of the time column), the final set of Measurement rows is    *)
(* the union of the rows of the single records, whatever the order and     *)
(* the interleaving in which the messages are handled (no statement        *)
(* failing).                                                               *)
C6_DistinctMicrosAnyOrder ==
    ( /\ OneStationFinished
      /\ \A t, u \in Tasks :
            (t # u /\ Accepted(t) /\ Accepted(u))
                => (task[t].p.When \div 1000) # (task[u].p.When \div 1000) )
    => TableIsUnionOfRecords

\* Two messages of one station were handled out of order: the one with the later
\* time first, and the two overlapped or followed each other.
C6_Witness ==
    /\ OneStationFinished
    /\ \E t, u \in Tasks :
          /\ t < u /\ Accepted(t) /\ Accepted(u)
          /\ (task[t].p.When \div 1000) > (task[u].p.When \div 1000)
          /\ hist[t].added > 0 /\ hist[u].added > 0

-----------------------------------------------------------------------------
(* C7  A message that json.Unmarshal rejects, or whose                     *)
(* end_device_ids.dev_eui is absent or empty, is rejected by parseUplink,  *)
(* and handleMessage returns without one persistence call: no Station      *)
(* upsert, no Gateway upsert and no Measurement insert.                    *)
Unrecognized(b) == ~b.json_ok \/ b.dev_eui = <<>>

C7_RejectedNoPersistence ==
    \A t \in Tasks :
        (Started(t) /\ Unrecognized(task[t].msg)) =>
            /\ ~Accepted(t)
            /\ Done(t)
            /\ hist[t].calls = 0
            /\ hist[t].st = "none" /\ hist[t].gw = "none" /\ hist[t].attempts = <<>>
            /\ task[t].logged = <<>>

\* A document without dev_eui has been handled, and bytes that are no document.
C7_Witness ==
    \E t, u \in Tasks :
        /\ Done(t) /\ task[t].msg.json_ok /\ task[t].msg.dev_eui = <<>>
        /\ Done(u) /\ ~task[u].msg.json_ok

-----------------------------------------------------------------------------
(* C8  A reading whose type is outside 1..15 causes no insert; every       *)
(* reading of known type of the same slave frame and of later frames is    *)
(* still inserted; every stored row has a sensor type in 1..15.            *)
ReadingOf(a) ==
    [slave_id |-> a.slave_id,
     m |-> [type |-> a.sensor_type, index |-> a.sensor_index,
            format |-> a.format, value |-> a.value]]

C8_UnknownTypesSkipped ==
    /\ \A r \in BagToSet(measurements) : r.sensor_type \in 1..15
    /\ \A t \in Tasks :
          LET at == hist[t].attempts
          IN  /\ \A i \in 1..Len(at) : at[i].sensor_type \in 1..15
              /\ (Done(t) /\ Accepted(t) /\ hist[t].insErr = {}) =>
                    /\ [i \in 1..Len(at) |-> ReadingOf(at[i])] = KnownReadings(task[t].p)
                    /\ \A i \in 1..Len(at) :
                          MKey(StoredRow(at[i])) \in MKeys(measurements)

\* A record with readings of unknown type before readings of known type, in its
\* first and in a later slave frame, has been ingested.
C8_Witness ==
    \E t \in Tasks :
        /\ Done(t) /\ Accepted(t) /\ hist[t].insErr = {}
        /\ Len(task[t].p.Msg.slaves) > 1
        /\ \A i \in 1..Len(task[t].p.Msg.slaves) :
              /\ ~(task[t].p.Msg.slaves[i].sensors[1].type \in 1..15)
              /\ task[t].p.Msg.slaves[i].sensors[2].type \in 1..15
        /\ Len(hist[t].attempts) > 1

-----------------------------------------------------------------------------
(* C9  When the insert of one reading fails, that reading alone is         *)
(* skipped: every reading of known type of the batch is attempted, in      *)
(* order, whether or not an earlier insert failed, and every attempt that  *)
(* did not fail has its key stored.                                        *)
C9_FailureIsolated ==
    \A t \in Tasks :
        Accepted(t) =>
            LET at == hist[t].attempts
                kr == KnownReadings(task[t].p)
            IN  /\ Len(at) <= Len(kr)
                /\ [i \in 1..Len(at) |-> ReadingOf(at[i])] = SubSeq(kr, 1, Len(at))
                /\ Done(t) => Len(at) = Len(kr)
                /\ \A i \in 1..Len(at) :
                      i \notin hist[t].insErr => MKey(StoredRow(at[i])) \in MKeys(measurements)
                /\ task[t].count = Len(at) - Cardinality(hist[t].insErr)

\* An insert has failed, its row is not stored, and the later inserts of the same
\* delivery, one in the same slave frame and one in a later frame, stored theirs.
C9_Witness ==
    \E t \in Tasks :
        /\ Done(t) /\ Accepted(t)
        /\ \E i, j, k \in 1..Len(hist[t].attempts) :
              LET at == hist[t].attempts
              IN  /\ i < j /\ j < k
                  /\ hist[t].insErr = {i}
                  /\ StoredRow(at[i]) \notin BagToSet(measurements)
                  /\ at[j].slave_id = at[i].slave_id
                  /\ StoredRow(at[j]) \in BagToSet(measurements)
                  /\ at[k].slave_id # at[i].slave_id
                  /\ StoredRow(at[k]) \in BagToSet(measurements)

-----------------------------------------------------------------------------
(* C10  A failed Station or Gateway upsert does not block the measurement  *)
(* inserts: the inserts attempted for a record and their arguments, the    *)
(* gateway id and the location of rx_metadata[0] included, are the ones    *)
(* the record calls for, whether the upserts succeed or fail.              *)
C10_DimensionFailureNoBlock ==
    \A t \in Tasks :
        Accepted(t) =>
            LET at == hist[t].attempts
                ra == RecordArgs(task[t].p)
            IN  /\ Len(at) <= Len(ra)
                /\ at = SubSeq(ra, 1, Len(at))
                /\ Done(t) => at = ra

\* A delivery whose gateway upsert failed has inserted a row that names the
\* gateway and its location.
C10_Witness ==
    \E t \in Tasks :
        /\ Done(t) /\ hist[t].gw = "err"
        /\ Len(hist[t].attempts) > 0
        /\ hist[t].attempts[1].gateway_id # <<>>
        /\ hist[t].attempts[1].latitude # <<>>
        /\ StoredRow(hist[t].attempts[1]) \in BagToSet(measurements)

-----------------------------------------------------------------------------
(* C11  The summary logged at the end of one ingest reports the number of  *)
(* rows this ingest added to the Measurement table, for every record and   *)
(* every prior table state, together with the station EUI.                 *)
C11_CountIsRowsAdded ==
    \A t \in Tasks :
        (Done(t) /\ Accepted(t)) =>
            /\ Len(task[t].logged) >= 2
            /\ task[t].logged[1] = hist[t].added
            /\ task[t].logged[2] = task[t].p.StationEUI

-----------------------------------------------------------------------------
(* C16  Timestamp resolution in parseUplink: the record's time is the      *)
(* uplink-message-level received_at when that is non-zero; otherwise the   *)
(* envelope-level received_at when that is non-zero; otherwise the         *)
(* processing time.                                                        *)
C16_TimestampResolution ==
    \A t \in Tasks :
        Accepted(t) =>
            LET up == task[t].msg.uplink_message.received_at
                env == task[t].msg.received_at
                when == task[t].p.When
            IN  /\ up # 0 => when = up
                /\ (up = 0 /\ env # 0) => when = env
                /\ (up = 0 /\ env = 0) => when \in NowTimes
                /\ (when \in NowTimes) => (up = 0 /\ env = 0)
                /\ when # 0

\* Records have been stamped from each of the three sources; one of the messages
\* carried both times, and they differed.
C16_Witness ==
    \E t, u \in Tasks :
        /\ Accepted(t) /\ Accepted(u)
        /\ task[t].msg.uplink_message.received_at # 0
        /\ task[t].msg.received_at # 0
        /\ task[t].msg.received_at # task[t].msg.uplink_message.received_at
        /\ task[u].msg.uplink_message.received_at = 0
        /\ task[u].msg.received_at # 0

\* A record has been stamped with the processing time.
C16_WitnessNow ==
    \E t \in Tasks :
        /\ Accepted(t)
        /\ task[t].msg.uplink_message.received_at = 0 /\ task[t].msg.received_at = 0

-----------------------------------------------------------------------------
(* C17  Gateway attribution uses rx_metadata entry 0 only: the gateway id  *)
(* and location of every insert of a message, and the Gateway row          *)
(* upserted, come from entry 0 whatever the later entries are; the         *)
(* Gateway upsert is issued exactly when rx_metadata is non-empty and      *)
(* entry 0 has a gateway id; with an empty rx_metadata the rows carry      *)
(* NULL gateway id, latitude and longitude.                                *)
PastGateway(t) == task[t].pc \in {"loop", "done"}

C17_FirstEntryOnly ==
    \A t \in Tasks :
        Accepted(t) =>
            LET rx == task[t].p.Msg.rx_metadata
                at == hist[t].attempts
                hasGw == IF rx = <<>> THEN FALSE ELSE rx[1].gateway_id # ""
            IN  /\ \A i \in 1..Len(at) :
                      /\ at[i].gateway_id = IF hasGw THEN <<rx[1].gateway_id>> ELSE <<>>
                      /\ at[i].latitude = IF rx = <<>> THEN <<>>
                                           ELSE IF rx[1].location = <<>> THEN <<>>
                                           ELSE <<rx[1].location[1].latitude>>
                      /\ at[i].longitude = IF rx = <<>> THEN <<>>
                                            ELSE IF rx[1].location = <<>> THEN <<>>
                                            ELSE <<rx[1].location[1].longitude>>
                /\ PastGateway(t) =>
                      hist[t].gwArgs = IF hasGw
                                       THEN <<[gateway_id |-> rx[1].gateway_id,
                                               gateway_eui |-> rx[1].eui]>>
                                       ELSE <<>>
                /\ ~PastGateway(t) => hist[t].gwArgs = <<>>
                /\ (hist[t].gw # "none") <=> (hist[t].gwArgs # <<>>)

\* Finished: a message with two entries naming different gateways, and a message
\* whose entry 0 has a location and no gateway id while entry 1 has one.
C17_Witness ==
    \E t, u \in Tasks :
        /\ Done(t) /\ Done(u) /\ Accepted(t) /\ Accepted(u)
        /\ Len(task[t].p.Msg.rx_metadata) > 1
        /\ task[t].p.Msg.rx_metadata[1].gateway_id # ""
        /\ task[t].p.Msg.rx_metadata[2].gateway_id # task[t].p.Msg.rx_metadata[1].gateway_id
        /\ hist[t].gw = "ok" /\ hist[t].added > 0
        /\ Len(task[u].p.Msg.rx_metadata) > 1
        /\ task[u].p.Msg.rx_metadata[1].gateway_id = ""
        /\ task[u].p.Msg.rx_metadata[2].gateway_id # ""
        /\ hist[u].added > 0

-----------------------------------------------------------------------------
(***************************************************************************)
(* Properties of decodeUplink.                                             *)
(***************************************************************************)
Returned == dec.pc = "returned"

\* Every reading that was decoded (trace) is in the result, in its block.
DecodedReadingsReturned ==
    \A k \in 1..Len(dec.trace) :
        dec.trace[k].at # <<>> =>
            /\ k <= Len(dec.slaves)
            /\ Len(dec.slaves[k].sensors) = Len(dec.trace[k].at)

\* Every block that was decoded to its end is in the result.
DecodedBlocksReturned ==
    \A k \in 1..Len(dec.trace) : dec.trace[k].pushed => k <= Len(dec.slaves)

(* C12  When a sensor's 2-byte header or its value bytes are cut off, the  *)
(* result has the error 'Truncated sensor header' or 'Truncated sensor     *)
(* value' and its slaves hold everything parsed before the cut: every      *)
(* slave block and every sensor reading that was completely decoded.       *)
C12_TruncationKeepsParsed ==
    (Returned /\ dec.errors # <<>>
              /\ dec.errors[1] \in {<<"Truncated sensor header">>,
                                     <<"Truncated sensor value">>}) =>
        /\ Len(dec.errors) = 1
        /\ DecodedBlocksReturned
        /\ DecodedReadingsReturned

\* The part of C12 that the code keeps: the error, and the blocks decoded to
\* their end.
C12_TruncationKeepsBlocks ==
    (Returned /\ dec.errors # <<>>
              /\ dec.errors[1] \in {<<"Truncated sensor header">>,
                                     <<"Truncated sensor value">>}) =>
        /\ Len(dec.errors) = 1
        /\ DecodedBlocksReturned
        /\ Len(dec.slaves) = Len(dec.trace) - 1

-----------------------------------------------------------------------------
(* C13  For a frame of zero or more complete well-formed slave blocks      *)
(* followed by 1 or 2 more bytes, the result has the warning 'Extra bytes  *)
(* at end of payload', no error, and the slaves of all the complete        *)
(* blocks; with no byte after the blocks the warnings are empty.           *)
C13_TrailingBytes ==
    (Returned /\ dec.input.family = "blocks") =>
        /\ dec.input.rest \in 1..2 =>
              /\ dec.warnings = << <<"Extra bytes at end of payload">> >>
              /\ dec.errors = <<>>
              /\ dec.slaves = dec.input.whole
        /\ dec.input.rest = 0 =>
              /\ dec.warnings = <<>>
              /\ dec.errors = <<>>
              /\ dec.slaves = dec.input.whole

\* Returned: a frame of one complete block with two readings (one of them a
\* negative fixed-point value) followed by 2 more bytes.
C13_Witness ==
    /\ Returned
    /\ dec.input.family = "blocks"
    /\ dec.input.rest = 2
    /\ Len(dec.input.whole) = 1
    /\ Len(dec.input.whole[1].sensors) = 2
    /\ dec.input.whole[1].sensors[2].value.num < 0

\* Returned: a frame of two complete blocks and no byte after them.
C13_WitnessNoRest ==
    /\ Returned
    /\ dec.input.family = "blocks"
    /\ dec.input.rest = 0
    /\ Len(dec.input.whole) = 2

-----------------------------------------------------------------------------
(* C14  A sensor header with format code 6 or 7 gives the error 'Unknown   *)
(* format <n>' and ends the call at once: no byte after the header is      *)
(* read, whether or not enough bytes follow it, and everything decoded so  *)
(* far is returned.                                                        *)
C14_UnknownFormatKeepsParsed ==
    (Returned /\ dec.errors # <<>> /\ dec.errors[1][1] = "Unknown format") =>
        /\ dec.errors = << <<"Unknown format", dec.hdr \div 32>> >>
        /\ dec.hdr \div 32 \in {6, 7}
        /\ dec.reads = dec.pos - 1
        /\ dec.warnings = <<>>
        /\ DecodedBlocksReturned
        /\ DecodedReadingsReturned

\* The part of C14 that the code keeps.
C14_UnknownFormatStops ==
    /\ (Returned /\ dec.errors # <<>> /\ dec.errors[1][1] = "Unknown format") =>
          /\ dec.errors = << <<"Unknown format", dec.hdr \div 32>> >>
          /\ dec.hdr \div 32 \in {6, 7}
          /\ dec.reads = dec.pos - 1
          /\ dec.warnings = <<>>
          /\ DecodedBlocksReturned
    /\ (Returned /\ dec.hdr \div 32 \in {6, 7}) =>
          (dec.errors # <<>> /\ dec.errors[1][1] = "Unknown format")

-----------------------------------------------------------------------------
C15_WitnessUnsigned ==
    /\ Returned
    /\ dec.input.family = "fixed5"
    /\ dec.input.n = 65535
    /\ dec.bytes = <<0, 1, 1, 2, 160, 255, 255>>
    /\ dec.slaves # <<>>

-----------------------------------------------------------------------------
(* C18  Header unpacking: for every header byte h the format is h >> 5 and *)
(* the index is h & 0x1F, so 32 * format + index = h; every reading of a   *)
(* result has its index in 0..31 and its format in 0..5; every slave id    *)
(* is the big-endian 16-bit value of the block's first two bytes; the      *)
(* sensors of a slave are in wire order.                                   *)
ReadingAsOnWire(rd, p) ==
    /\ rd.type = dec.bytes[p + 1]
    /\ 32 * rd.format + rd.index = dec.bytes[p + 2]
    /\ rd.index \in 0..31
    /\ rd.format \in 0..5

SensorsAsOnWire(sensors, tr) ==
    /\ Len(sensors) = Len(tr.at)
    /\ \A j \in 1..Len(sensors) :
          /\ ReadingAsOnWire(sensors[j], tr.at[j])
          /\ tr.at[j] >= tr.start + 3
          /\ \A g \in 1..(j - 1) : tr.at[g] < tr.at[j]

C18_HeaderUnpacking ==
    /\ 32 * dec.fmt + dec.index = dec.hdr
    /\ dec.index \in 0..31
    /\ dec.fmt \in 0..7
    /\ \A k \in 1..Len(dec.slaves) :
          /\ dec.slaves[k].id = 256 * dec.bytes[dec.trace[k].start + 1]
                                   + dec.bytes[dec.trace[k].start + 2]
          /\ dec.slaves[k].id \in 0..65535
          /\ SensorsAsOnWire(dec.slaves[k].sensors, dec.trace[k])
    /\ dec.pc = "for" => SensorsAsOnWire(dec.sensors, dec.trace[Len(dec.trace)])
    /\ (dec.input.family = "header" /\ dec.trace # <<>>) =>
          \/ dec.pc = "for" /\ dec.i = 0
          \/ dec.hdr = dec.input.n

\* Returned: the frame of slave 0xFF00 with header byte 0xBF (format 5, index 31),
\* its reading in the result.
C18_Witness ==
    /\ Returned
    /\ dec.input.family = "header"
    /\ dec.input.n = 191
    /\ dec.slaves # <<>>
    /\ dec.slaves[1].id = 65280
    /\ dec.slaves[1].sensors # <<>>
    /\ dec.slaves[1].sensors[1].index = 31

\* Returned: a slave with two readings.
C18_WitnessOrder ==
    /\ Returned
    /\ \E k \in 1..Len(dec.slaves) : Len(dec.slaves[k].sensors) = 2

-----------------------------------------------------------------------------
(* C19  decodeUplink terminates on every frame and never reads past the    *)
(* end of bytes: pos only increases, each slave block advances it by at    *)
(* least 3, every byte is read at an index below bytes.length, and         *)
(* 0 <= pos <= bytes.length in every state.                                *)
C19_InBounds ==
    /\ 0 <= dec.pos
    /\ dec.pos <= Len(dec.bytes)
    /\ dec.reads < Len(dec.bytes)

C19_Advances ==
    /\ dec'.pos >= dec.pos
    /\ Len(dec'.trace) > Len(dec.trace) => dec'.pos >= dec.pos + 3
    /\ Len(dec'.slaves) > Len(dec.slaves) =>
          dec'.pos >= dec.trace[Len(dec.trace)].start + 3

C19_Terminates ==
    /\ []C19_InBounds
    /\ [][C19_Advances]_vars
    /\ <>Returned

\* Returned after two blocks, the last byte of the frame read.
C19_Witness ==
    /\ Returned
    /\ Len(dec.trace) = 2
    /\ dec.reads = Len(dec.bytes) - 1
    /\ dec.pos = Len(dec.bytes)

-----------------------------------------------------------------------------
(* C20  A result carries at most one error and at most one warning, and    *)
(* never both: with an error the warnings are empty; the warning 'Extra    *)
(* bytes at end of payload' comes only when every slave block before the   *)
(* remaining bytes was decoded to its end.                                 *)
C20_OneErrorOrOneWarning ==
    /\ Len(dec.errors) <= 1
    /\ Len(dec.warnings) <= 1
    /\ dec.errors # <<>> => (Returned /\ dec.warnings = <<>>)
    /\ dec.warnings # <<>> =>
          /\ Returned
          /\ dec.warnings = << <<"Extra bytes at end of payload">> >>
          /\ dec.errors = <<>>
          /\ \A k \in 1..Len(dec.trace) : dec.trace[k].pushed
          /\ Len(dec.slaves) = Len(dec.trace)
          /\ DecodedReadingsReturned
          /\ Len(dec.bytes) - dec.pos \in 1..2

\* Returned with an error while bytes remain after the cursor.
C20_Witness ==
    /\ Returned
    /\ dec.errors # <<>>
    /\ dec.pos < Len(dec.bytes)
    /\ dec.slaves # <<>>

\* Returned with the warning after a decoded block.
C20_WitnessWarning ==
    /\ Returned
    /\ dec.warnings # <<>>
    /\ dec.slaves # <<>>

====
